---- MODULE Spec2Model ----
(***************************************************************************)
(* A model of rpsls.py: the Rock-Paper-Scissors-Lizard-Spock game with an  *)
(* adaptive player (RPSLSState, PatternDetector, RPSLSGame) and its driver *)
(* demonstrate_game.                                                       *)
(*                                                                         *)
(* Python values are modelled as follows.  A move is its string.  None,    *)
(* where a move is expected (Optional[str]), is the string "None".  An     *)
(* Optional[List[str]] is a record [is_none, items].  A list and a deque   *)
(* are sequences.  A dict and a Counter keep their insertion order: the    *)
(* pattern cache, which is only looked up by key, is a function from key   *)
(* strings to moves; a Counter, which is iterated, is a sequence of        *)
(* <<key, count>> pairs in first-insertion order.  random.choice(seq) is   *)
(* seq[k] for a k the random source picks below len(seq); k is an input    *)
(* of the action that makes the call.                                      *)
(***************************************************************************)
EXTENDS Integers, Sequences, FiniteSets, TLC

VARIABLES
    player_history,     \* RPSLSState.player_history
    opponent_history,   \* RPSLSState.opponent_history
    move_history,       \* PatternDetector.move_history, a deque(maxlen=50)
    pattern_cache,      \* PatternDetector.pattern_cache
    demo,               \* the arguments of demonstrate_game, when it drives
    results,            \* demonstrate_game's list of outcomes
    call,               \* the latest call made and its arguments
    ret,                \* what the latest call returned or raised
    trace               \* the locals of get_ai_move in the latest round

game == <<player_history, opponent_history, move_history, pattern_cache>>
vars == <<player_history, opponent_history, move_history, pattern_cache,
          demo, results, call, ret, trace>>

(***************************************************************************)
(* Bounds of the model.                                                    *)
(***************************************************************************)
\* rounds of a demonstrate_game run whose opponent draws at random
MaxRounds == 3
\* rounds of a demonstrate_game run with the cycling or repeating opponent
MaxFixedRounds == 7
\* length of the custom move list handed to the game
MaxCustomLen == 3
\* play_round calls of a game that is called directly
MaxApiRounds == 2
\* rounds of the long game in which the random source returns index 0
LongPrefix == 50
\* further rounds of the long game, every random draw explored
MaxTail == 2
\* length of the windows the frequency tier is applied to
FreqWindowLen == 10
\* moves of a custom list after its first five
MaxExtra == 3
\* moves pushed to a detector that is used on its own
MaxDetectorLen == 12
\* rounds of the game in which only the opponent's draws are explored
DeepRounds == 5

(***************************************************************************)
(* RPSLSState                                                              *)
(***************************************************************************)
MOVES == <<"rock", "paper", "scissors", "lizard", "spock">>

MoveSet == {MOVES[i] : i \in 1..Len(MOVES)}

\* WINS_AGAINST with paper added to what rock defeats
WINS_AGAINST_rock_beats_paper ==
    [m \in MoveSet |->
        CASE m = "rock"     -> <<"scissors", "lizard", "paper">>
          [] m = "paper"    -> <<"rock", "spock">>
          [] m = "scissors" -> <<"paper", "lizard">>
          [] m = "lizard"   -> <<"paper", "spock">>
          [] m = "spock"    -> <<"rock", "scissors">>]

WINS_AGAINST ==
    [m \in MoveSet |->
        CASE m = "rock"     -> <<"scissors", "lizard">>
          [] m = "paper"    -> <<"rock", "spock">>
          [] m = "scissors" -> <<"paper", "lizard">>
          [] m = "lizard"   -> <<"paper", "spock">>
          [] m = "spock"    -> <<"rock", "scissors">>]

\* Python's `x in list`
InList(x, list) == \E i \in 1..Len(list) : list[i] = x

get_result(move1, move2) ==
    IF move1 = move2 THEN 0
    ELSE IF InList(move2, WINS_AGAINST[move1]) THEN 1
    ELSE -1

(***************************************************************************)
(* Python helpers                                                          *)
(***************************************************************************)
None == "None"

NoneList == [is_none |-> TRUE, items |-> <<>>]
List(s) == [is_none |-> FALSE, items |-> s]

\* truth value of an Optional[List]: None and [] are false
Truthy(l) == ~l.is_none /\ Len(l.items) > 0

\* random._randbelow(n): the values the random source can return
RandBelow(n) == 0..(n - 1)

\* random.choice(seq) when the random source returns k
choice(seq, k) == seq[k + 1]

\* seq[-n:]
LastN(seq, n) ==
    IF Len(seq) <= n THEN seq ELSE SubSeq(seq, Len(seq) - n + 1, Len(seq))

\* seq[i] with Python's negative indices; out of range raises IndexError
PyIndex(seq, i) ==
    IF 0 <= i /\ i < Len(seq) THEN seq[i + 1]
    ELSE IF i < 0 /\ -i <= Len(seq) THEN seq[Len(seq) + i + 1]
    ELSE "IndexError"

\* ''.join(seq)
RECURSIVE join(_)
join(seq) == IF seq = <<>> THEN "" ELSE Head(seq) \o join(Tail(seq))

\* the elements of a finite set of integers, in increasing order
Ascending(S) ==
    [k \in 1..Cardinality(S) |->
        CHOOSE i \in S : Cardinality({j \in S : j < i}) = k - 1]

\* collections.Counter(seq): the distinct elements in the order of their
\* first occurrence, each with the number of its occurrences
Counter(seq) ==
    LET firsts == Ascending({i \in 1..Len(seq) :
                                \A j \in 1..(i - 1) : seq[j] # seq[i]})
    IN [k \in 1..Len(firsts) |->
            <<seq[firsts[k]],
              Cardinality({j \in 1..Len(seq) : seq[j] = seq[firsts[k]]})>>]

\* Counter.most_common(1)[0][0] of a non-empty Counter: max() over the items
\* in insertion order keeps the first item of maximal count
most_common(c) ==
    LET best == CHOOSE i \in 1..Len(c) :
                    /\ \A j \in 1..Len(c) : c[j][2] <= c[i][2]
                    /\ \A j \in 1..(i - 1) : c[j][2] < c[i][2]
    IN c[best][1]

(***************************************************************************)
(* PatternDetector                                                         *)
(***************************************************************************)
window_size == 3

\* frequency_threshold = 0.3 as the fraction 3/10.  The code compares the
\* float count / total_moves with the float 0.3; for total_moves <= 50 a
\* quotient differs from 3/10 by 0 or by at least 1/500, so the float
\* comparison agrees with the exact one.
frequency_threshold_num == 3
frequency_threshold_den == 10

maxlen == 50

\* add_move on a deque without maxlen
add_move_unbounded(mh, move) == Append(mh, move)

\* deque(maxlen=50).append(move)
add_move(mh, move) ==
    IF Len(mh) >= maxlen THEN Append(Tail(mh), move) ELSE Append(mh, move)

\* pattern_occurrences without the earlier windows that overlap the last one
pattern_occurrences_disjoint(mh, recent_moves) ==
    LET hits == Ascending({i \in 0..(Len(mh) - 2 * window_size) :
                    SubSeq(mh, i + 1, i + window_size) = recent_moves})
    IN [k \in 1..Len(hits) |-> mh[hits[k] + window_size + 1]]

\* the list pattern_occurrences built by the scan of get_pattern_prediction:
\* the followers of the earlier windows equal to recent_moves, in the order
\* of the scan
pattern_occurrences(mh, recent_moves) ==
    LET hits == Ascending({i \in 0..(Len(mh) - window_size - 1) :
                    /\ SubSeq(mh, i + 1, i + window_size) = recent_moves
                    /\ i + window_size < Len(mh)})
    IN [k \in 1..Len(hits) |-> mh[hits[k] + window_size + 1]]

\* get_pattern_prediction storing the oldest move of the window instead of
\* the prediction
get_pattern_prediction_caches_last(mh, cache) ==
    IF Len(mh) < window_size THEN [value |-> None, cache |-> cache]
    ELSE LET recent_moves == LastN(mh, window_size)
             pattern_key == join(recent_moves)
         IN IF pattern_key \in DOMAIN cache
            THEN [value |-> cache[pattern_key], cache |-> cache]
            ELSE LET occ == pattern_occurrences(mh, recent_moves)
                 IN IF occ # <<>>
                    THEN [value |-> most_common(Counter(occ)),
                          cache |-> (pattern_key :> mh[1]) @@ cache]
                    ELSE [value |-> None, cache |-> cache]

\* get_pattern_prediction scanning the window again when the key is cached
get_pattern_prediction_rescans(mh, cache) ==
    IF Len(mh) < window_size THEN [value |-> None, cache |-> cache]
    ELSE LET recent_moves == LastN(mh, window_size)
             pattern_key == join(recent_moves)
             occ == pattern_occurrences(mh, recent_moves)
         IN IF occ # <<>>
            THEN LET prediction == most_common(Counter(occ))
                 IN [value |-> prediction,
                     cache |-> (pattern_key :> prediction) @@ cache]
            ELSE [value |-> None, cache |-> cache]

\* get_pattern_prediction: the value returned and the cache it leaves
get_pattern_prediction(mh, cache) ==
    IF Len(mh) < window_size THEN [value |-> None, cache |-> cache]
    ELSE LET recent_moves == LastN(mh, window_size)
             pattern_key == join(recent_moves)
         IN IF pattern_key \in DOMAIN cache
            THEN [value |-> cache[pattern_key], cache |-> cache]
            ELSE LET occ == pattern_occurrences(mh, recent_moves)
                 IN IF occ # <<>>
                    THEN LET prediction == most_common(Counter(occ))
                         IN [value |-> prediction,
                             cache |-> (pattern_key :> prediction) @@ cache]
                    ELSE [value |-> None, cache |-> cache]

\* get_frequency_bias with > in place of >=
get_frequency_bias_strict(mh) ==
    IF mh = <<>> THEN None
    ELSE LET move_counts == Counter(mh)
             total_moves == Len(mh)
             over(i) == move_counts[i][2] * frequency_threshold_den
                            > frequency_threshold_num * total_moves
         IN IF \E i \in 1..Len(move_counts) : over(i)
            THEN move_counts[CHOOSE i \in 1..Len(move_counts) :
                        over(i) /\ \A j \in 1..(i - 1) : ~over(j)][1]
            ELSE None

\* get_frequency_bias silent until the window holds window_size moves
get_frequency_bias_needs_window(mh) ==
    IF Len(mh) < window_size THEN None
    ELSE LET move_counts == Counter(mh)
             total_moves == Len(mh)
             over(i) == move_counts[i][2] * frequency_threshold_den
                            >= frequency_threshold_num * total_moves
         IN IF \E i \in 1..Len(move_counts) : over(i)
            THEN move_counts[CHOOSE i \in 1..Len(move_counts) :
                        over(i) /\ \A j \in 1..(i - 1) : ~over(j)][1]
            ELSE None

\* get_frequency_bias: the first key of the Counter, in insertion order,
\* whose share reaches the threshold
get_frequency_bias(mh) ==
    IF mh = <<>> THEN None
    ELSE LET move_counts == Counter(mh)
             total_moves == Len(mh)
             over(i) == move_counts[i][2] * frequency_threshold_den
                            >= frequency_threshold_num * total_moves
         IN IF \E i \in 1..Len(move_counts) : over(i)
            THEN move_counts[CHOOSE i \in 1..Len(move_counts) :
                        over(i) /\ \A j \in 1..(i - 1) : ~over(j)][1]
            ELSE None

(***************************************************************************)
(* RPSLSGame                                                               *)
(***************************************************************************)
\* possible_counters with the win relation read the wrong way round
possible_counters_inverted(move) ==
    SelectSeq(MOVES, LAMBDA m : InList(m, WINS_AGAINST[move]))

\* the list possible_counters of get_counter_move
possible_counters(move) ==
    SelectSeq(MOVES, LAMBDA m : InList(move, WINS_AGAINST[m]))

\* get_counter_move when the random source returns k
get_counter_move(move, k) == choice(possible_counters(move), k)

\* get_ai_move whose third tier counts the whole of opponent_history
get_ai_move_whole_history(mh, cache, opp_hist) ==
    LET pattern == get_pattern_prediction(mh, cache)
        frequency_bias == get_frequency_bias(mh)
    IN IF pattern.value # None
       THEN [tier |-> 1, predicted |-> pattern.value,
             candidates |-> possible_counters(pattern.value),
             cache |-> pattern.cache]
       ELSE IF frequency_bias # None
       THEN [tier |-> 2, predicted |-> frequency_bias,
             candidates |-> possible_counters(frequency_bias),
             cache |-> pattern.cache]
       ELSE IF opp_hist # <<>>
       THEN LET recent == most_common(Counter(opp_hist))
            IN [tier |-> 3, predicted |-> recent,
                candidates |-> possible_counters(recent),
                cache |-> pattern.cache]
       ELSE [tier |-> 4, predicted |-> None, candidates |-> MOVES,
             cache |-> pattern.cache]

\* get_ai_move asking the frequency tier before the pattern tier
get_ai_move_frequency_first(mh, cache, opp_hist) ==
    LET pattern == get_pattern_prediction(mh, cache)
        frequency_bias == get_frequency_bias(mh)
    IN IF frequency_bias # None
       THEN [tier |-> 2, predicted |-> frequency_bias,
             candidates |-> possible_counters(frequency_bias),
             cache |-> cache]
       ELSE IF pattern.value # None
       THEN [tier |-> 1, predicted |-> pattern.value,
             candidates |-> possible_counters(pattern.value),
             cache |-> pattern.cache]
       ELSE IF opp_hist # <<>>
       THEN LET recent == most_common(Counter(LastN(opp_hist, 5)))
            IN [tier |-> 3, predicted |-> recent,
                candidates |-> possible_counters(recent),
                cache |-> pattern.cache]
       ELSE [tier |-> 4, predicted |-> None, candidates |-> MOVES,
             cache |-> pattern.cache]

\* get_ai_move up to its random.choice: the tier that answered, the move it
\* predicted, the list the move is drawn from and the cache left behind
get_ai_move(mh, cache, opp_hist) ==
    LET pattern == get_pattern_prediction(mh, cache)
        frequency_bias == get_frequency_bias(mh)
    IN IF pattern.value # None
       THEN [tier |-> 1, predicted |-> pattern.value,
             candidates |-> possible_counters(pattern.value),
             cache |-> pattern.cache]
       ELSE IF frequency_bias # None
       THEN [tier |-> 2, predicted |-> frequency_bias,
             candidates |-> possible_counters(frequency_bias),
             cache |-> pattern.cache]
       ELSE IF opp_hist # <<>>
       THEN LET recent == most_common(Counter(LastN(opp_hist, 5)))
            IN [tier |-> 3, predicted |-> recent,
                candidates |-> possible_counters(recent),
                cache |-> pattern.cache]
       ELSE [tier |-> 4, predicted |-> None, candidates |-> MOVES,
             cache |-> pattern.cache]

\* repeating_move that replays only from the third round on
repeating_move_late(opp_hist, k) ==
    IF Len(opp_hist) > 1 THEN opp_hist[Len(opp_hist)] ELSE choice(MOVES, k)

\* the opponent's move of the "repeating" strategy
repeating_move(opp_hist, k) ==
    IF opp_hist # <<>> THEN opp_hist[Len(opp_hist)] ELSE choice(MOVES, k)

\* list.index(x): the first position holding x, from 0
index(list, x) ==
    (CHOOSE i \in 1..Len(list) :
        list[i] = x /\ \A j \in 1..(i - 1) : list[j] # x) - 1

\* cycling_move wrapping one position early
cycling_move_short(opp_hist) ==
    LET idx == IF opp_hist # <<>>
               THEN (index(MOVES, opp_hist[Len(opp_hist)]) + 1)
                        % (Len(MOVES) - 1)
               ELSE 0
    IN MOVES[idx + 1]

\* the opponent's move of the "cycling" strategy
cycling_move(opp_hist) ==
    LET idx == IF opp_hist # <<>>
               THEN (index(MOVES, opp_hist[Len(opp_hist)]) + 1) % Len(MOVES)
               ELSE 0
    IN MOVES[idx + 1]

\* custom_move indexing one position early
custom_move_off_by_one(custom_moves, round_number, k) ==
    IF Truthy(custom_moves) /\ round_number < Len(custom_moves.items)
    THEN PyIndex(custom_moves.items, round_number - 1)
    ELSE choice(MOVES, k)

\* the opponent's move of the "custom" strategy, or "IndexError"
custom_move(custom_moves, round_number, k) ==
    IF Truthy(custom_moves) /\ round_number < Len(custom_moves.items)
    THEN PyIndex(custom_moves.items, round_number)
    ELSE choice(MOVES, k)

\* opponent_move whose final else repeats the previous move
opponent_move_else_repeats(opponent_strategy, custom_moves, round_number, opp_hist, k) ==
    CASE opponent_strategy = "random"    -> choice(MOVES, k)
      [] opponent_strategy = "repeating" -> repeating_move(opp_hist, k)
      [] opponent_strategy = "cycling"   -> cycling_move(opp_hist)
      [] opponent_strategy = "custom"    ->
              custom_move(custom_moves, round_number, k)
      [] OTHER                           -> repeating_move(opp_hist, k)

\* the first part of play_round: the opponent's move, or "IndexError"
opponent_move(opponent_strategy, custom_moves, round_number, opp_hist, k) ==
    CASE opponent_strategy = "random"    -> choice(MOVES, k)
      [] opponent_strategy = "repeating" -> repeating_move(opp_hist, k)
      [] opponent_strategy = "cycling"   -> cycling_move(opp_hist)
      [] opponent_strategy = "custom"    ->
              custom_move(custom_moves, round_number, k)
      [] OTHER                           -> choice(MOVES, k)

\* round_result scoring from the opponent's side
round_result_swapped(ai_move, opp) == <<ai_move, opp, get_result(opp, ai_move)>>

\* the triple play_round returns
round_result(ai_move, opp) == <<ai_move, opp, get_result(ai_move, opp)>>

NoTrace == [tier |-> 0, predicted |-> None, window |-> <<>>, history |-> <<>>]

\* play_round asking get_ai_move before it pushes the opponent's move
play_round_predicts_first(opponent_strategy, custom_moves, round_number, k1, k2) ==
    LET opp == opponent_move(opponent_strategy, custom_moves, round_number,
                             opponent_history, k1)
        args == [op |-> "play_round", opponent_strategy |-> opponent_strategy,
                 custom_moves |-> custom_moves, round_number |-> round_number]
    IN IF opp = "IndexError"
       THEN /\ call' = args
            /\ ret' = [raised |-> "IndexError", value |-> <<>>]
            /\ trace' = NoTrace
            /\ UNCHANGED game
       ELSE LET ai == get_ai_move(move_history, pattern_cache,
                                  opponent_history)
            IN /\ k2 \in RandBelow(Len(ai.candidates))
               /\ move_history' = add_move(move_history, opp)
               /\ pattern_cache' = ai.cache
               /\ opponent_history' = Append(opponent_history, opp)
               /\ player_history' =
                      Append(player_history, choice(ai.candidates, k2))
               /\ call' = args
               /\ ret' = [raised |-> None,
                          value |-> round_result(choice(ai.candidates, k2), opp)]
               /\ trace' = [tier |-> ai.tier, predicted |-> ai.predicted,
                            window |-> move_history,
                            history |-> opponent_history]

\* play_round appending to the two histories before it asks get_ai_move
play_round_appends_first(opponent_strategy, custom_moves, round_number, k1, k2) ==
    LET opp == opponent_move(opponent_strategy, custom_moves, round_number,
                             opponent_history, k1)
        args == [op |-> "play_round", opponent_strategy |-> opponent_strategy,
                 custom_moves |-> custom_moves, round_number |-> round_number]
    IN IF opp = "IndexError"
       THEN /\ call' = args
            /\ ret' = [raised |-> "IndexError", value |-> <<>>]
            /\ trace' = NoTrace
            /\ UNCHANGED game
       ELSE LET mh == add_move(move_history, opp)
                oh == Append(opponent_history, opp)
                ai == get_ai_move(mh, pattern_cache, oh)
            IN /\ k2 \in RandBelow(Len(ai.candidates))
               /\ move_history' = mh
               /\ pattern_cache' = ai.cache
               /\ opponent_history' = oh
               /\ player_history' =
                      Append(player_history, choice(ai.candidates, k2))
               /\ call' = args
               /\ ret' = [raised |-> None,
                          value |-> round_result(choice(ai.candidates, k2), opp)]
               /\ trace' = [tier |-> ai.tier, predicted |-> ai.predicted,
                            window |-> mh, history |-> oh]

\* play_round(opponent_strategy, custom_moves, round_number) when the random
\* source returns k1 to the opponent's draw and k2 to the player's
play_round(opponent_strategy, custom_moves, round_number, k1, k2) ==
    LET opp == opponent_move(opponent_strategy, custom_moves, round_number,
                             opponent_history, k1)
        args == [op |-> "play_round", opponent_strategy |-> opponent_strategy,
                 custom_moves |-> custom_moves, round_number |-> round_number]
    IN IF opp = "IndexError"
       THEN /\ call' = args
            /\ ret' = [raised |-> "IndexError", value |-> <<>>]
            /\ trace' = NoTrace
            /\ UNCHANGED game
       ELSE LET mh == add_move(move_history, opp)
                ai == get_ai_move(mh, pattern_cache, opponent_history)
            IN /\ k2 \in RandBelow(Len(ai.candidates))
               /\ move_history' = mh
               /\ pattern_cache' = ai.cache
               /\ opponent_history' = Append(opponent_history, opp)
               /\ player_history' =
                      Append(player_history, choice(ai.candidates, k2))
               /\ call' = args
               /\ ret' = [raised |-> None,
                          value |-> round_result(choice(ai.candidates, k2), opp)]
               /\ trace' = [tier |-> ai.tier, predicted |-> ai.predicted,
                            window |-> mh, history |-> opponent_history]

(***************************************************************************)
(* demonstrate_game                                                        *)
(***************************************************************************)
\* a strategy name play_round does not know
Unrecognized == "mirror"

STRATEGIES == {"random", "repeating", "cycling", "custom", Unrecognized}

\* the custom list of the example: the first moves of the table
CUSTOM == SubSeq(MOVES, 1, MaxCustomLen)

CustomLists == {NoneList, List(<<>>), List(CUSTOM)}

NoDemo == [rounds |-> 0, opponent_strategy |-> None, custom_moves |-> NoneList]

NoCall == [op |-> None]
NoRet == [raised |-> None, value |-> <<>>]

\* RPSLSGame(): a fresh game
NewGame ==
    /\ player_history = <<>>
    /\ opponent_history = <<>>
    /\ move_history = <<>>
    /\ pattern_cache = <<>>
    /\ call = NoCall
    /\ ret = NoRet
    /\ trace = NoTrace

\* the runs of demonstrate_game explored: every strategy name, the custom
\* list given with the custom strategy only
DemoArgs ==
    {[rounds |-> IF s \in {"cycling", "repeating"} THEN MaxFixedRounds
                 ELSE MaxRounds,
      opponent_strategy |-> s, custom_moves |-> c] :
        s \in STRATEGIES \ {"custom"}, c \in {NoneList}}
    \cup {[rounds |-> MaxRounds, opponent_strategy |-> "custom",
           custom_moves |-> c] : c \in CustomLists}

Init ==
    /\ NewGame
    /\ demo \in DemoArgs
    /\ results = <<>>

\* one iteration of the loop of demonstrate_game, i = len(results)
DemoRound(k1, k2) ==
    /\ Len(results) < demo.rounds
    /\ play_round(demo.opponent_strategy, demo.custom_moves, Len(results),
                  k1, k2)
    /\ results' = Append(results, ret'.value[3])
    /\ UNCHANGED demo

PlayRound ==
    \E k1 \in RandBelow(Len(MOVES)), k2 \in RandBelow(Len(MOVES)) :
        DemoRound(k1, k2)

Next == PlayRound

Spec == Init /\ [][Next]_vars

(***************************************************************************)
(* A long run of demonstrate_game.  The opponent's draw of the first      *)
(* round is explored; to the other draws of the first LongPrefix rounds    *)
(* the random source returns index 0; in the rounds after them every draw  *)
(* is explored.                                                            *)
(***************************************************************************)
LongArgs == {[a EXCEPT !.rounds = LongPrefix + MaxTail] : a \in DemoArgs}

InitLong ==
    /\ NewGame
    /\ demo \in LongArgs
    /\ results = <<>>

\* the first round, with every draw of the opponent
PlayLongFirst ==
    /\ Len(results) = 0
    /\ \E k1 \in RandBelow(Len(MOVES)) : DemoRound(k1, 0)

PlayLongPrefix ==
    /\ Len(results) < LongPrefix
    /\ DemoRound(0, 0)

PlayLongTail ==
    /\ Len(results) >= LongPrefix
    /\ PlayRound

NextLong == PlayLongFirst \/ PlayLongPrefix \/ PlayLongTail

SpecLong == InitLong /\ [][NextLong]_vars

(***************************************************************************)
(* A run of demonstrate_game against the random opponent in which every    *)
(* draw of the opponent is explored and the random source returns index 0  *)
(* to the player's draws.                                                  *)
(***************************************************************************)
InitDeep ==
    /\ NewGame
    /\ demo = [rounds |-> DeepRounds, opponent_strategy |-> "random",
               custom_moves |-> NoneList]
    /\ results = <<>>

PlayDeep == \E k1 \in RandBelow(Len(MOVES)) : DemoRound(k1, 0)

NextDeep == PlayDeep

SpecDeep == InitDeep /\ [][NextDeep]_vars

(***************************************************************************)
(* Runs of demonstrate_game against custom lists that go through the table *)
(* of moves once and then hold any further moves, one round per entry;     *)
(* the random source returns index 0 to every draw.                        *)
(***************************************************************************)
ExtendedLists(n) == {List(MOVES \o t) : t \in [1..n -> MoveSet]}

InitCustom ==
    /\ NewGame
    /\ demo \in {[rounds |-> Len(MOVES) + MaxExtra,
                  opponent_strategy |-> "custom", custom_moves |-> c] :
                    c \in ExtendedLists(MaxExtra)}
    /\ results = <<>>

PlayCustomList == DemoRound(0, 0)

NextCustom == PlayCustomList

SpecCustom == InitCustom /\ [][NextCustom]_vars

(***************************************************************************)
(* A game whose play_round is called directly, with any arguments.         *)
(***************************************************************************)
RoundNumbers == (-(MaxCustomLen + 1))..MaxCustomLen

InitApi ==
    /\ NewGame
    /\ demo = NoDemo
    /\ results = <<>>

\* play_round(name): custom_moves and round_number keep their defaults
PlayDefault ==
    /\ Len(opponent_history) < MaxApiRounds
    /\ \E s \in STRATEGIES,
          k1 \in RandBelow(Len(MOVES)), k2 \in RandBelow(Len(MOVES)) :
            play_round(s, NoneList, 0, k1, k2)
    /\ UNCHANGED <<demo, results>>

\* play_round("custom", None, round_number), play_round("custom", [], ...)
PlayCustomEmpty ==
    /\ Len(opponent_history) < MaxApiRounds
    /\ \E c \in {NoneList, List(<<>>)}, rn \in {-1, 0, 1},
          k1 \in RandBelow(Len(MOVES)), k2 \in RandBelow(Len(MOVES)) :
            play_round("custom", c, rn, k1, k2)
    /\ UNCHANGED <<demo, results>>

\* play_round("custom", CUSTOM, round_number)
PlayCustom ==
    /\ Len(opponent_history) < MaxApiRounds
    /\ \E rn \in RoundNumbers,
          k1 \in RandBelow(Len(MOVES)), k2 \in RandBelow(Len(MOVES)) :
            play_round("custom", List(CUSTOM), rn, k1, k2)
    /\ UNCHANGED <<demo, results>>

NextApi == PlayDefault \/ PlayCustomEmpty \/ PlayCustom

SpecApi == InitApi /\ [][NextApi]_vars

(***************************************************************************)
(* A PatternDetector used on its own.                                      *)
(***************************************************************************)
\* the moves pushed to the detector
DetectorMoves == {"rock", "paper"}

InitDetector ==
    /\ NewGame
    /\ demo = NoDemo
    /\ results = <<>>

AddMove ==
    /\ Len(move_history) < MaxDetectorLen
    /\ \E m \in DetectorMoves :
            /\ move_history' = add_move(move_history, m)
            /\ call' = [op |-> "add_move", move |-> m]
    /\ ret' = [raised |-> None, value |-> <<None>>]
    /\ UNCHANGED <<player_history, opponent_history, pattern_cache,
                   demo, results, trace>>

GetPatternPrediction ==
    LET r == get_pattern_prediction(move_history, pattern_cache)
    IN /\ pattern_cache' = r.cache
       /\ call' = [op |-> "get_pattern_prediction"]
       /\ ret' = [raised |-> None, value |-> <<r.value>>]
       /\ UNCHANGED <<player_history, opponent_history, move_history,
                      demo, results, trace>>

GetFrequencyBias ==
    /\ call' = [op |-> "get_frequency_bias"]
    /\ ret' = [raised |-> None, value |-> <<get_frequency_bias(move_history)>>]
    /\ UNCHANGED <<player_history, opponent_history, move_history,
                   pattern_cache, demo, results, trace>>

NextDetector == AddMove \/ GetPatternPrediction \/ GetFrequencyBias

SpecDetector == InitDetector /\ [][NextDetector]_vars

(***************************************************************************)
(* The frequency tier applied to windows of FreqWindowLen moves.           *)
(***************************************************************************)
\* the windows in which a move, once followed by another, does not return:
\* every order of first appearance with every count of each move
RECURSIVE BlockWindows(_)
BlockWindows(n) ==
    IF n = 0 THEN {<<>>}
    ELSE UNION {{Append(w, m) :
                    m \in {x \in MoveSet :
                              w = <<>> \/ x = w[Len(w)] \/ ~InList(x, w)}} :
                w \in BlockWindows(n - 1)}

\* the windows over three of the moves, in every order
MixedWindows(n) == [1..n -> {"rock", "paper", "scissors"}]

\* the windows of n moves the frequency tier is applied to
FreqWindows(n) == BlockWindows(n) \cup MixedWindows(n)

InitFreq ==
    /\ player_history = <<>>
    /\ opponent_history = <<>>
    /\ move_history \in FreqWindows(FreqWindowLen)
    /\ pattern_cache = <<>>
    /\ call = NoCall
    /\ ret = NoRet
    /\ trace = NoTrace
    /\ demo = NoDemo
    /\ results = <<>>

NextFreq == GetFrequencyBias

SpecFreq == InitFreq /\ [][NextFreq]_vars

(***************************************************************************)
(* Properties                                                              *)
(***************************************************************************)
\* a play_round call has returned (it did not raise)
Returned == call.op = "play_round" /\ ret.raised = None

\* the number of occurrences of x in seq
Occurrences(seq, x) == Cardinality({i \in 1..Len(seq) : seq[i] = x})

\* the position of the first occurrence of x in seq
FirstAt(seq, x) == CHOOSE i \in 1..Len(seq) :
                        seq[i] = x /\ \A j \in 1..(i - 1) : seq[j] # x

\* a beats b in the rules of the game
Beats(a, b) ==
    <<a, b>> \in {<<"rock", "scissors">>, <<"rock", "lizard">>,
                  <<"paper", "rock">>, <<"paper", "spock">>,
                  <<"scissors", "paper">>, <<"scissors", "lizard">>,
                  <<"lizard", "paper">>, <<"lizard", "spock">>,
                  <<"spock", "rock">>, <<"spock", "scissors">>}

\* C1: the outcome play_round returns is the Outcome Model's result for the
\* two moves it returns, seen from the player's side: 1 when the player's
\* move beats the opponent's, 0 when they are equal, -1 otherwise.
C1_OutcomeMatchesMoves ==
    Returned =>
        LET ai == ret.value[1]
            opp == ret.value[2]
            outcome == ret.value[3]
        IN /\ outcome \in {-1, 0, 1}
           /\ outcome = get_result(ai, opp)
           /\ (outcome = 1) = Beats(ai, opp)
           /\ (outcome = 0) = (ai = opp)

\* a round the player lost has been returned
C1_Witness == Returned /\ ret.value[3] = -1 /\ Beats(ret.value[2], ret.value[1])

\* the moves played so far, by either side
Played ==
    {player_history[i] : i \in 1..Len(player_history)}
        \cup {opponent_history[i] : i \in 1..Len(opponent_history)}

\* C2: get_result(a, a) is a draw, and of two different moves exactly one
\* wins against the other, so that get_result(a, b) = -get_result(b, a):
\* for every move a against every move b played so far, the two moves of
\* each round among them.
C2_ExactlyOneWinner ==
    /\ \A a \in MoveSet, b \in Played :
        /\ a = b => get_result(a, b) = 0
        /\ a # b => (get_result(a, b) = 1) # (get_result(b, a) = 1)
        /\ get_result(a, b) = -get_result(b, a)
    /\ \A i \in 1..Len(results) :
        /\ results[i] = get_result(player_history[i], opponent_history[i])
        /\ results[i] = -get_result(opponent_history[i], player_history[i])

\* a round has been scored a draw, and another scored a win whose reverse
\* scores a loss
C2_Witness ==
    /\ Returned
    /\ Len(results) >= 2
    /\ \E i, j \in 1..Len(results) :
        /\ results[i] = 0
        /\ player_history[i] = opponent_history[i]
        /\ results[j] = 1
        /\ get_result(opponent_history[j], player_history[j]) = -1

\* C3: every move has exactly 2 counters, and whichever of them
\* get_counter_move returns wins against the move: for every move played so
\* far, and for the move the player has just countered.
C3_CountersWin ==
    /\ \A m \in Played :
        /\ Len(possible_counters(m)) = 2
        /\ \A k \in RandBelow(Len(possible_counters(m))) :
                get_result(get_counter_move(m, k), m) = 1
    /\ Returned /\ trace.tier \in 1..3 =>
        /\ InList(ret.value[1], possible_counters(trace.predicted))
        /\ get_result(ret.value[1], trace.predicted) = 1

\* the player has played the second counter of a predicted move
C3_Witness ==
    /\ Returned
    /\ trace.tier \in 1..3
    /\ ret.value[1] = get_counter_move(trace.predicted, 1)
    /\ ret.value[1] # get_counter_move(trace.predicted, 0)

\* get_frequency_bias has been applied to a window of 10 moves holding rock
\* exactly 4 times
FrequencyCase ==
    /\ call.op = "get_frequency_bias"
    /\ Len(move_history) = 10
    /\ Occurrences(move_history, "rock") = 4

\* the moves of the window whose first occurrence precedes rock's and whose
\* share of the window reaches 3/10
EarlierBiased ==
    {m \in MoveSet :
        /\ InList(m, move_history)
        /\ FirstAt(move_history, m) < FirstAt(move_history, "rock")
        /\ 10 * Occurrences(move_history, m) >= 3 * Len(move_history)}

\* C4 as stated: on every window of 10 moves holding rock exactly 4 times
\* get_frequency_bias predicts rock.
C4_AlwaysRock == FrequencyCase => ret.value[1] = "rock"

\* C4 as amended: on a window holding rock exactly 4 times, with a share of
\* at least 3/10, get_frequency_bias predicts rock when no move occurring
\* before the first rock has a share of 3/10 or more, and otherwise the one
\* of those moves that occurs first.
C4_RockUnlessEarlierBias ==
    /\ call.op = "get_frequency_bias"
    /\ Occurrences(move_history, "rock") = 4
    /\ 10 * 4 >= 3 * Len(move_history)
    => /\ EarlierBiased = {} => ret.value[1] = "rock"
       /\ EarlierBiased # {} =>
            /\ ret.value[1] \in EarlierBiased
            /\ \A m \in EarlierBiased :
                 FirstAt(move_history, ret.value[1]) <= FirstAt(move_history, m)

\* on a window of 10 moves holding rock 4 times, paper is predicted: it
\* occurs 3 times, the first of them before the first rock and after a
\* lizard that occurs less often
C4_Witness ==
    /\ FrequencyCase
    /\ ret.value[1] = "paper"
    /\ Occurrences(move_history, "paper") = 3
    /\ move_history[1] = "lizard"
    /\ FirstAt(move_history, "paper") < FirstAt(move_history, "rock")

\* C5: after get_pattern_prediction has returned, calling it again with no
\* add_move in between returns the same value and leaves the detector as
\* it is, so that any number of further calls return that value.
C5_RepeatedCallAgrees ==
    call.op = "get_pattern_prediction" =>
        LET again == get_pattern_prediction(move_history, pattern_cache)
        IN /\ again.value = ret.value[1]
           /\ again.cache = pattern_cache

\* a prediction has been returned from the cache that a scan of the present
\* window would not give
C5_Witness ==
    /\ call.op = "get_pattern_prediction"
    /\ ret.value[1] # None
    /\ join(LastN(move_history, 3)) \in DOMAIN pattern_cache
    /\ get_pattern_prediction(move_history, <<>>).value # ret.value[1]

\* the fixed ordering of the moves
TableOrder == <<"rock", "paper", "scissors", "lizard", "spock">>

\* C6: in a game whose every round uses the cycling strategy the opponent's
\* move of round k is the move at position (k-1) mod 5 of the table.
C6_CyclingFollowsTable ==
    demo.opponent_strategy = "cycling" =>
        \A k \in 1..Len(opponent_history) :
            opponent_history[k] = TableOrder[((k - 1) % 5) + 1]

\* the cycling opponent has wrapped to rock in round 6
C6_Witness ==
    /\ demo.opponent_strategy = "cycling"
    /\ Len(opponent_history) >= 6
    /\ opponent_history[5] = "spock"
    /\ opponent_history[6] = "rock"

\* C7: in a game whose every round uses the repeating strategy the opponent's
\* move of every round from the second on is its move of round 1.
C7_RepeatingKeepsFirstMove ==
    demo.opponent_strategy = "repeating" =>
        \A k \in 2..Len(opponent_history) :
            /\ opponent_history[k] = opponent_history[1]
            /\ k = Len(opponent_history) => ret.value[2] = opponent_history[1]

\* the repeating opponent has replayed spock at least twice
C7_Witness ==
    /\ demo.opponent_strategy = "repeating"
    /\ Len(opponent_history) >= 3
    /\ opponent_history[1] = "spock"
    /\ ret.value[2] = "spock"

\* the latest call used the custom strategy with a list
CustomCall ==
    /\ call.op = "play_round"
    /\ call.opponent_strategy = "custom"
    /\ ~call.custom_moves.is_none

\* C8: under the custom strategy with list S and 0 <= r < len(S) the
\* opponent's move is S[r], whatever the history; with r >= len(S), or S
\* absent or empty, every one of the 5 moves can be the opponent's move.
C8_CustomFollowsList ==
    /\ CustomCall
       /\ 0 <= call.round_number
       /\ call.round_number < Len(call.custom_moves.items)
       => /\ ret.raised = None
          /\ ret.value[2] = call.custom_moves.items[call.round_number + 1]
    /\ \A c \in CustomLists, r \in RoundNumbers :
        LET drawn == {opponent_move("custom", c, r, opponent_history, k) :
                        k \in RandBelow(5)}
        IN /\ ~c.is_none /\ 0 <= r /\ r < Len(c.items)
                => drawn = {c.items[r + 1]}
           /\ c.is_none \/ r >= Len(c.items) => drawn = MoveSet

\* the second entry of the list has been played in a game whose first round
\* was not the list's first entry
C8_Witness ==
    /\ CustomCall
    /\ call.round_number = 1
    /\ ret.raised = None
    /\ ret.value[2] = "paper"
    /\ Len(opponent_history) = 2
    /\ opponent_history[1] = "spock"

\* C9: after n rounds the rolling window holds the last min(n, 50) moves of
\* the opponent, in order, and never more than 50.
C9_WindowIsLastFifty ==
    LET n == Len(opponent_history)
        k == IF n < 50 THEN n ELSE 50
    IN /\ n = Len(results)
       /\ Len(move_history) = k
       /\ \A i \in 1..k : move_history[i] = opponent_history[n - k + i]

\* 52 rounds have been played and the first two moves have left the window
C9_Witness ==
    /\ Len(opponent_history) = 52
    /\ Len(move_history) = 50
    /\ move_history[1] = opponent_history[3]
    /\ move_history[1] # opponent_history[1]
    /\ move_history[50] # move_history[49]

\* C10: play_round is total: no call ends in an error.
C10_NeverRaises == call.op = "play_round" => ret.raised = None

\* what a play_round call with the given arguments can do in the present
\* state: for every pair of draws, the exception raised or the triple
\* returned with the state the call leaves
Outcomes(opponent_strategy, custom_moves, round_number) ==
    UNION {
        LET opp == opponent_move(opponent_strategy, custom_moves, round_number,
                                 opponent_history, k1)
        IN IF opp = "IndexError"
           THEN {[raised |-> "IndexError"]}
           ELSE LET mh == add_move(move_history, opp)
                    ai == get_ai_move(mh, pattern_cache, opponent_history)
                IN {[raised |-> None,
                     value |-> round_result(choice(ai.candidates, k2), opp),
                     move_history |-> mh,
                     pattern_cache |-> ai.cache,
                     opponent_history |-> Append(opponent_history, opp),
                     player_history |->
                         Append(player_history, choice(ai.candidates, k2))] :
                    k2 \in RandBelow(Len(ai.candidates))} :
        k1 \in RandBelow(5)}

\* C11: a play_round call with an unrecognized strategy name does what one
\* with the name random does: from every state the two have the same
\* possible opponent moves (all 5), resulting states and returned triples,
\* and the call made with the unrecognized name raised nothing.
C11_UnrecognizedIsRandom ==
    /\ call.op = "play_round" /\ call.opponent_strategy = Unrecognized
        => /\ ret.raised = None
           /\ ret.value[2] = opponent_history[Len(opponent_history)]
    /\ \A c \in CustomLists, r \in {0, 1} :
        LET unknown == Outcomes(Unrecognized, c, r)
        IN /\ unknown = Outcomes("random", NoneList, 0)
           /\ \A o \in unknown : o.raised = None
           /\ {o.value[2] : o \in unknown} = {"rock", "paper", "scissors",
                                              "lizard", "spock"}

\* a call with the unrecognized name in a game with history has drawn a
\* move that is neither the previous move nor the next of the table
C11_Witness ==
    /\ Returned
    /\ call.opponent_strategy = Unrecognized
    /\ Len(opponent_history) = 2
    /\ opponent_history[1] = "rock"
    /\ ret.value[2] = "lizard"

\* C12: every play_round call appends exactly one entry to each of the two
\* histories, the returned player move to player_history and the returned
\* opponent move to opponent_history, and leaves the earlier entries as they
\* are; the two histories have the same length.  (Every step that changes
\* the state is one play_round call.)
C12_EachCallAppendsOne ==
    [][/\ Len(player_history') = Len(player_history) + 1
       /\ Len(opponent_history') = Len(opponent_history) + 1
       /\ SubSeq(player_history', 1, Len(player_history)) = player_history
       /\ SubSeq(opponent_history', 1, Len(opponent_history)) = opponent_history
       /\ ret'.raised = None
       /\ player_history'[Len(player_history')] = ret'.value[1]
       /\ opponent_history'[Len(opponent_history')] = ret'.value[2]
       /\ Len(player_history') = Len(opponent_history')]_vars

\* the moves that beat m
Counters(m) == {c \in {"rock", "paper", "scissors", "lizard", "spock"} :
                    Beats(c, m)}

\* the most frequent entry of a non-empty list, the earliest of them when
\* several are equally frequent
Majority(list) ==
    CHOOSE m \in {list[i] : i \in 1..Len(list)} :
        \A x \in {list[i] : i \in 1..Len(list)} \ {m} :
            \/ Occurrences(list, x) < Occurrences(list, m)
            \/ /\ Occurrences(list, x) = Occurrences(list, m)
               /\ FirstAt(list, m) < FirstAt(list, x)

\* C13: the player's move follows a strict priority chain.  In every round
\* it is a counter of the pattern tier's prediction when there is one;
\* otherwise a counter of the frequency tier's prediction when there is one;
\* otherwise a counter of the majority of the last 5 entries of the
\* opponent's history when that history is not empty; otherwise any move.
\* (The tiers are asked about the window with the round's move pushed, the
\* cache and the history as they were before the round.)
C13_PriorityChain ==
    [][ret'.raised = None =>
        LET tier1 == get_pattern_prediction(move_history', pattern_cache).value
            tier2 == get_frequency_bias(move_history')
            ai == ret'.value[1]
        IN IF tier1 # None
           THEN trace'.tier = 1 /\ trace'.predicted = tier1
                /\ ai \in Counters(tier1)
           ELSE IF tier2 # None
           THEN trace'.tier = 2 /\ trace'.predicted = tier2
                /\ ai \in Counters(tier2)
           ELSE IF opponent_history # <<>>
           THEN trace'.tier = 3
                /\ trace'.predicted = Majority(LastN(opponent_history, 5))
                /\ ai \in Counters(trace'.predicted)
           ELSE trace'.tier = 4]_vars

\* the pattern tier has decided a round in which the frequency tier would
\* have predicted another move, countered by other moves
C13_Witness ==
    /\ Returned
    /\ trace.tier = 1
    /\ get_frequency_bias(trace.window) \notin {None, trace.predicted}
    /\ ret.value[1] \notin Counters(get_frequency_bias(trace.window))

\* the start positions (from 1) of the earlier windows of mh that hold its
\* last 3 moves and are followed by a recorded move
EarlierHits(mh) ==
    {i \in 1..(Len(mh) - 3) :
        \A d \in 0..2 : mh[i + d] = mh[Len(mh) - 2 + d]}

\* how many of those windows are followed by m
FollowedBy(mh, m) == Cardinality({i \in EarlierHits(mh) : mh[i + 3] = m})

\* the first of those windows followed by m (defined when there is one)
FirstFollowedBy(mh, m) ==
    CHOOSE i \in EarlierHits(mh) :
        /\ mh[i + 3] = m
        /\ \A j \in EarlierHits(mh) : mh[j + 3] = m => i <= j

\* the key of the last 3 moves of a window of 3 moves or more
KeyOf(mh) == join(SubSeq(mh, Len(mh) - 2, Len(mh)))

\* C14: a call of get_pattern_prediction that finds no cache entry for the
\* last 3 moves.  With fewer than 3 moves in the window, or no earlier
\* window holding the same 3 moves (followed by a recorded move), it returns
\* None and leaves the cache as it is.  Otherwise it returns the move that
\* most often follows those earlier windows, overlapping ones included, the
\* follower met first in the scan when several are equally frequent, and
\* the cache gains exactly that move under the key of the last 3 moves.
C14_MissScansWindow ==
    [][/\ call'.op = "get_pattern_prediction"
       /\ Len(move_history) >= 3 => KeyOf(move_history) \notin DOMAIN pattern_cache
       => LET mh == move_history
              hits == IF Len(mh) < 3 THEN {} ELSE EarlierHits(mh)
              prediction == ret'.value[1]
          IN /\ move_history' = mh
             /\ ret'.raised = None
             /\ IF hits = {}
                THEN /\ prediction = None
                     /\ pattern_cache' = pattern_cache
                ELSE /\ prediction \in {mh[i + 3] : i \in hits}
                     /\ \A i \in hits :
                          LET m == mh[i + 3]
                          IN m # prediction =>
                              \/ FollowedBy(mh, m) < FollowedBy(mh, prediction)
                              \/ /\ FollowedBy(mh, m) = FollowedBy(mh, prediction)
                                 /\ FirstFollowedBy(mh, prediction)
                                        < FirstFollowedBy(mh, m)
                     /\ DOMAIN pattern_cache'
                            = DOMAIN pattern_cache \cup {KeyOf(mh)}
                     /\ pattern_cache'[KeyOf(mh)] = prediction
                     /\ \A k \in DOMAIN pattern_cache :
                            pattern_cache'[k] = pattern_cache[k]]_vars

\* a scan has stored rock for three rocks: the three earlier windows of
\* three rocks, two of them overlapping the last one, are followed by paper,
\* rock and rock, and any earlier call would have stored paper
C14_Witness ==
    /\ call.op = "get_pattern_prediction"
    /\ move_history = <<"rock", "rock", "rock", "paper", "rock",
                        "rock", "rock", "rock", "rock">>
    /\ ret.value[1] = "rock"
    /\ KeyOf(move_history) \in DOMAIN pattern_cache
    /\ pattern_cache[KeyOf(move_history)] = "rock"

\* C15: the pattern cache is never invalidated.  No step removes an entry
\* or changes its move, and a call of get_pattern_prediction whose last 3
\* moves have an entry returns the stored move and touches nothing,
\* whatever the window holds.
C15_CacheKeepsEntries ==
    [][/\ \A k \in DOMAIN pattern_cache :
            /\ k \in DOMAIN pattern_cache'
            /\ pattern_cache'[k] = pattern_cache[k]
       /\ (/\ call'.op = "get_pattern_prediction"
           /\ Len(move_history) >= 3
           /\ KeyOf(move_history) \in DOMAIN pattern_cache)
          => /\ ret'.value[1] = pattern_cache[KeyOf(move_history)]
             /\ pattern_cache' = pattern_cache
             /\ move_history' = move_history]_vars

\* a call has returned the paper stored for three rocks when the window
\* held one earlier window of three rocks, although the earlier windows of
\* three rocks are by now followed by rock twice and by paper once
C15_Witness ==
    /\ call.op = "get_pattern_prediction"
    /\ move_history = <<"rock", "rock", "rock", "paper", "rock",
                        "rock", "rock", "rock", "rock">>
    /\ ret.value[1] = "paper"
    /\ FollowedBy(move_history, "rock") = 2
    /\ FollowedBy(move_history, "paper") = 1
    /\ pattern_cache[KeyOf(move_history)] = "paper"

\* C16: within a round the opponent's move is chosen, pushed to the window,
\* the player's move is computed, and only then the two histories are
\* appended.  So the opponent history that get_ai_move read in round n is
\* the n-1 moves of the earlier rounds, and the window it read ends with the
\* round's move and, for n <= 50, is the n moves played so far.
C16_PredictorSeesPushedMove ==
    call.op = "play_round" /\ ret.raised = None =>
        LET n == Len(opponent_history)
        IN /\ n >= 1
           /\ Len(player_history) = n
           /\ trace.history = SubSeq(opponent_history, 1, n - 1)
           /\ trace.window # <<>>
           /\ trace.window[Len(trace.window)] = ret.value[2]
           /\ opponent_history[n] = ret.value[2]
           /\ n <= 50 => trace.window = opponent_history
           /\ move_history = trace.window

\* round 50: get_ai_move has read a window of 50 moves and a history of 49
C16_Witness ==
    /\ call.op = "play_round"
    /\ ret.raised = None
    /\ Len(opponent_history) = 50
    /\ Len(trace.window) = 50
    /\ Len(trace.history) = 49
    /\ trace.window[50] = ret.value[2]

\* C20: in a fresh game whose every round uses the repeating strategy, the
\* outcome of every round is Win (1), however many rounds are played, the
\* rounds after the window has filled up (50 moves) included.
C20_RepeatingAlwaysWon ==
    demo.opponent_strategy = "repeating" =>
        /\ \A i \in 1..Len(results) : results[i] = 1
        /\ \A i \in 1..Len(opponent_history) :
                /\ opponent_history[i] = opponent_history[1]
                /\ Beats(player_history[i], opponent_history[i])

\* round 52 of a game against an opponent repeating spock has been won
C20_Witness ==
    /\ demo.opponent_strategy = "repeating"
    /\ Len(results) = 52
    /\ results[52] = 1
    /\ opponent_history[1] = "spock"
    /\ opponent_history[52] = "spock"
    /\ Len(move_history) = 50

\* the last 5 entries of a list, all of them when it has fewer
LastFive(list) ==
    [i \in 1..(IF Len(list) < 5 THEN Len(list) ELSE 5) |->
        list[(IF Len(list) < 5 THEN 0 ELSE Len(list) - 5) + i]]

\* C17: the third tier.  When neither the pattern tier nor the frequency
\* tier predicts and the opponent history is not empty, the predicted move
\* is the most frequent of the last 5 entries of that history (of all its
\* entries when there are fewer than 5), the one occurring earliest among
\* those entries when several are equally frequent.
C17_LastFiveMajority ==
    [][/\ ret'.raised = None
       /\ get_pattern_prediction(move_history', pattern_cache).value = None
       /\ get_frequency_bias(move_history') = None
       /\ opponent_history # <<>>
       => /\ trace'.tier = 3
          /\ trace'.history = opponent_history
          /\ trace'.predicted = Majority(LastFive(opponent_history))
          /\ ret'.value[1] \in Counters(Majority(LastFive(opponent_history)))
      ]_vars

\* round 7 against rock, paper, scissors, lizard, spock, scissors, rock: the
\* third tier predicts scissors, twice among the last 5 entries of the
\* history, of which paper is the first
C17_Witness ==
    /\ call.op = "play_round"
    /\ ret.raised = None
    /\ trace.tier = 3
    /\ trace.history = <<"rock", "paper", "scissors", "lizard", "spock",
                         "scissors">>
    /\ ret.value[2] = "rock"
    /\ trace.predicted = "scissors"
    /\ Occurrences(LastFive(trace.history), "scissors") = 2
    /\ LastFive(trace.history)[1] = "paper"

\* C18: the first round of a fresh game returns the outcome Win (1),
\* whatever the strategy named and whatever the opponent plays: the window
\* holds the opponent's move alone when the player's move is chosen, so the
\* frequency tier predicts it and the player counters it.
C18_FirstRoundIsWon ==
    Returned /\ Len(opponent_history) = 1 =>
        /\ ret.value[3] = 1
        /\ Beats(ret.value[1], ret.value[2])
        /\ trace.window = <<ret.value[2]>>
        /\ trace.tier = 2
        /\ trace.predicted = ret.value[2]

\* the first round of a game, called with the custom list and round number
\* -1: the opponent plays the last entry, scissors, and spock wins
C18_Witness ==
    /\ Returned
    /\ Len(opponent_history) = 1
    /\ call.opponent_strategy = "custom"
    /\ call.round_number = -1
    /\ ret.value = <<"spock", "scissors", 1>>

\* C19: no round reaches the fourth tier of get_ai_move, the uniform draw
\* among all moves: one of the three tiers above it predicts a move in
\* every round, and the player's move is a counter of that move.
C19_NeverFallsBack ==
    Returned =>
        /\ trace.tier \in {1, 2, 3}
        /\ trace.predicted \in {"rock", "paper", "scissors", "lizard", "spock"}
        /\ ret.value[1] \in Counters(trace.predicted)
        /\ \/ get_frequency_bias(trace.window) # None
           \/ get_pattern_prediction(trace.window, pattern_cache).value # None
           \/ trace.history # <<>>

\* a fourth round in which neither the pattern tier nor the frequency tier
\* predicts (four different moves) and the third tier decides
C19_Witness ==
    /\ Returned
    /\ Len(trace.window) = 4
    /\ get_frequency_bias(trace.window) = None
    /\ trace.tier = 3
    /\ Len(trace.history) = 3

====
